---------------------------- MODULE Spec2Model ----------------------------
(***************************************************************************)
(* Dependency-graph resolver (src/main.py): the APKINDEX parser, the test  *)
(* graph parser, the neighbour lookups of stage 2, the iterative DFS of    *)
(* stage 3 and the inversion + re-traversal of stage 4.                    *)
(*                                                                         *)
(* Python strings are TLA+ strings (Len, SubSeq and \o work on them);      *)
(* Python lists are sequences; Python dicts, which keep insertion order,   *)
(* are sequences of <<key, value>> pairs with pairwise distinct keys.      *)
(***************************************************************************)
EXTENDS Integers, Sequences, FiniteSets, TLC

(***************************************************************************)
(* Bounds of the explored inputs.                                          *)
(***************************************************************************)
MaxLines == 2       \* lines of a generated test-graph file
MaxBlocks == 2      \* blocks of a generated APKINDEX text
MaxDepth == 2       \* largest max_depth explored

(***************************************************************************)
(* str helpers                                                             *)
(***************************************************************************)
Whitespace == {" ", "\t", "\n", "\r"}

CharAt(s, i) == SubSeq(s, i, i)

\* sub in s
Contains(sub, s) ==
    \E i \in 1..(Len(s) - Len(sub) + 1) : SubSeq(s, i, i + Len(sub) - 1) = sub

\* s.startswith(prefix)
StartsWith(s, prefix) ==
    Len(prefix) <= Len(s) /\ SubSeq(s, 1, Len(prefix)) = prefix

\* s.strip()
Strip(s) ==
    LET keep == {i \in 1..Len(s) : CharAt(s, i) \notin Whitespace}
    IN  IF keep = {} THEN ""
        ELSE LET lo == CHOOSE i \in keep : \A j \in keep : i <= j
                 hi == CHOOSE i \in keep : \A j \in keep : j <= i
             IN  SubSeq(s, lo, hi)

\* position of the first occurrence of the one-character string c, 0 if none
FindChar(s, c) ==
    LET hits == {i \in 1..Len(s) : CharAt(s, i) = c}
    IN  IF hits = {} THEN 0 ELSE CHOOSE i \in hits : \A j \in hits : i <= j

\* s.split(c, 1) for a c that occurs in s
SplitOnce(s, c) ==
    LET k == FindChar(s, c)
    IN  <<SubSeq(s, 1, k - 1), SubSeq(s, k + 1, Len(s))>>

\* s.split(c): every piece, empty ones included
RECURSIVE Split(_, _)
Split(s, c) ==
    LET k == FindChar(s, c)
    IN  IF k = 0 THEN <<s>>
        ELSE <<SubSeq(s, 1, k - 1)>> \o Split(SubSeq(s, k + 1, Len(s)), c)

\* s.split(c)[0]
SplitFirst(s, c) ==
    LET k == FindChar(s, c)
    IN  IF k = 0 THEN s ELSE SubSeq(s, 1, k - 1)

\* s.replace(a, b) for one-character a and b
RECURSIVE Replace(_, _, _)
Replace(s, a, b) ==
    IF s = "" THEN ""
    ELSE (IF CharAt(s, 1) = a THEN b ELSE CharAt(s, 1))
         \o Replace(SubSeq(s, 2, Len(s)), a, b)

\* s.split(): pieces between runs of whitespace, no empty piece
RECURSIVE SplitWs(_)
SplitWs(s) ==
    LET t == Strip(s)
        ws == {i \in 1..Len(t) : CharAt(t, i) \in Whitespace}
    IN  IF t = "" THEN <<>>
        ELSE IF ws = {} THEN <<t>>
        ELSE LET k == CHOOSE i \in ws : \A j \in ws : i <= j
             IN  <<SubSeq(t, 1, k - 1)>> \o SplitWs(SubSeq(t, k + 1, Len(t)))

\* text.splitlines(): the lines without their terminator
RECURSIVE SplitLines(_)
SplitLines(text) ==
    LET k == FindChar(text, "\n")
    IN  IF text = "" THEN <<>>
        ELSE IF k = 0 THEN <<text>>
        ELSE <<SubSeq(text, 1, k - 1)>> \o SplitLines(SubSeq(text, k + 1, Len(text)))

\* iterating a text file: the lines with their terminator
RECURSIVE FileLines(_)
FileLines(text) ==
    LET k == FindChar(text, "\n")
    IN  IF text = "" THEN <<>>
        ELSE IF k = 0 THEN <<text>>
        ELSE <<SubSeq(text, 1, k)>> \o FileLines(SubSeq(text, k + 1, Len(text)))

\* code point order of the characters that occur in version strings
Ord(c) ==
    CASE c = "." -> 46
      [] c = "0" -> 48
      [] c = "1" -> 49
      [] c = "2" -> 50
      [] c = "9" -> 57
      [] OTHER   -> 0

\* a < b for str
RECURSIVE StrLess(_, _)
StrLess(a, b) ==
    IF b = "" THEN FALSE
    ELSE IF a = "" THEN TRUE
    ELSE IF CharAt(a, 1) = CharAt(b, 1)
         THEN StrLess(SubSeq(a, 2, Len(a)), SubSeq(b, 2, Len(b)))
         ELSE Ord(CharAt(a, 1)) < Ord(CharAt(b, 1))

(***************************************************************************)
(* dict helpers                                                            *)
(***************************************************************************)
Keys(d) == {d[i][1] : i \in DOMAIN d}

\* k in d
Has(d, k) == k \in Keys(d)

\* d[k] for a key of d
Get(d, k) == d[CHOOSE i \in DOMAIN d : d[i][1] = k][2]

\* d.get(k, default)
GetOr(d, k, default) == IF Has(d, k) THEN Get(d, k) ELSE default

\* d[k] = v
Put(d, k, v) ==
    IF Has(d, k)
    THEN [i \in DOMAIN d |-> IF d[i][1] = k THEN <<k, v>> ELSE d[i]]
    ELSE Append(d, <<k, v>>)

\* d.setdefault(k, v)
SetDefault(d, k, v) == IF Has(d, k) THEN d ELSE Append(d, <<k, v>>)

\* list(d.keys())
KeyList(d) == [i \in DOMAIN d |-> d[i][1]]

\* x in list
InList(x, list) == \E i \in DOMAIN list : list[i] = x

(***************************************************************************)
(* parse_apkindex                                                          *)
(***************************************************************************)
\* the token loop of flush(): one dependency token appended to deps or not
AddToken(deps, token) ==
    IF StartsWith(token, "so:") THEN deps
    ELSE LET dep == Strip(SplitFirst(SplitFirst(SplitFirst(token, "<"), ">"), "="))
         IN  IF dep # "" THEN Append(deps, dep) ELSE deps

RECURSIVE TokenLoop(_, _, _)
TokenLoop(raw, i, deps) ==
    IF i > Len(raw) THEN deps
    ELSE TokenLoop(raw, i + 1, AddToken(deps, raw[i]))

\* the dependency list flush() builds from the D value
ParseDeps(deps_line) ==
    IF deps_line # ""
    THEN TokenLoop(SplitWs(Replace(deps_line, ",", " ")), 1, <<>>)
    ELSE <<>>

\* current: the fields of the block being read, a function on a subset of
\* {"P", "V", "D"}
EmptyBlock == [k \in {} |-> ""]

SetField(current, key, val) ==
    [k \in (DOMAIN current) \cup {key} |-> IF k = key THEN val ELSE current[k]]

\* db.setdefault(name, {}).setdefault(ver, deps)
Register(db, name, ver, deps) ==
    LET db1 == SetDefault(db, name, <<>>)
    IN  Put(db1, name, SetDefault(Get(db1, name), ver, deps))

\* flush(): the db after the block held in current is completed
Flush(db, current) ==
    IF "P" \in DOMAIN current /\ "V" \in DOMAIN current
    THEN Register(db, current["P"], current["V"],
                  ParseDeps(IF "D" \in DOMAIN current THEN current["D"] ELSE ""))
    ELSE db

\* one line of a block: the fields after it
ApkLine(current, line) ==
    IF Contains(":", line)
    THEN LET kv  == SplitOnce(line, ":")
             key == Strip(kv[1])
             val == Strip(kv[2])
         IN  IF key \in {"P", "V", "D"} THEN SetField(current, key, val)
             ELSE current
    ELSE current

RECURSIVE ApkLoop(_, _, _, _)
ApkLoop(lines, i, db, current) ==
    IF i > Len(lines) THEN Flush(db, current)
    ELSE IF Strip(lines[i]) = ""
         THEN ApkLoop(lines, i + 1, Flush(db, current), EmptyBlock)
         ELSE ApkLoop(lines, i + 1, db, ApkLine(current, lines[i]))

parse_apkindex(text) == ApkLoop(SplitLines(text), 1, <<>>, EmptyBlock)

(***************************************************************************)
(* A lookup either returns a list or raises KeyError.                      *)
(***************************************************************************)
Ok(list) == [ok |-> TRUE, val |-> list]
KeyError == [ok |-> FALSE, val |-> <<>>]

\* get_direct_deps_real(apkindex_db, pkg, version)
get_direct_deps_real(apkindex_db, pkg, version) ==
    LET versions == GetOr(apkindex_db, pkg, <<>>)
    IN  IF versions = <<>> THEN KeyError
        ELSE IF ~Has(versions, version) THEN KeyError
        ELSE Ok(Get(versions, version))

\* sorted(versions.keys())[-1]
MaxVersion(versions) ==
    CHOOSE v \in Keys(versions) : \A w \in Keys(versions) : ~StrLess(v, w)

(***************************************************************************)
(* read_test_graph                                                         *)
(***************************************************************************)
\* [d.strip() for d in rest.split(",") if d.strip()]
RECURSIVE StripNonEmpty(_, _)
StripNonEmpty(parts, i) ==
    IF i > Len(parts) THEN <<>>
    ELSE (IF Strip(parts[i]) # "" THEN <<Strip(parts[i])>> ELSE <<>>)
         \o StripNonEmpty(parts, i + 1)

\* ReadLine that keeps the first list of a node declared with a colon
ReadLine_FirstWins(graph, raw) ==
    LET line == Strip(raw)
    IN  IF line = "" \/ StartsWith(line, "#") THEN graph
        ELSE IF ~Contains(":", line) THEN SetDefault(graph, line, <<>>)
        ELSE LET nr   == SplitOnce(line, ":")
                 node == Strip(nr[1])
                 rest == nr[2]
                 deps == IF Strip(rest) # ""
                         THEN StripNonEmpty(Split(rest, ","), 1)
                         ELSE <<>>
             IN  SetDefault(graph, node, deps)

\* the body of the loop over the lines of the file
ReadLine(graph, raw) ==
    LET line == Strip(raw)
    IN  IF line = "" \/ StartsWith(line, "#") THEN graph
        ELSE IF ~Contains(":", line) THEN SetDefault(graph, line, <<>>)
        ELSE LET nr   == SplitOnce(line, ":")
                 node == Strip(nr[1])
                 rest == nr[2]
                 deps == IF Strip(rest) # ""
                         THEN StripNonEmpty(Split(rest, ","), 1)
                         ELSE <<>>
             IN  Put(graph, node, deps)

RECURSIVE ReadLoop(_, _, _)
ReadLoop(raws, i, graph) ==
    IF i > Len(raws) THEN graph
    ELSE ReadLoop(raws, i + 1, ReadLine(graph, raws[i]))

read_test_graph(text) == ReadLoop(FileLines(text), 1, <<>>)

(***************************************************************************)
(* The neighbour lookups.  A closure is the record of what it captured:    *)
(* fn names the function, table is the dict it reads (graph, db or rev),   *)
(* pkg and deps are the root and its exact-version list (real mode), skip  *)
(* is the substring of make_filtered_neighbors ("" when not wrapped).      *)
(***************************************************************************)
Closure(fn, table, pkg, deps, skip) ==
    [fn |-> fn, table |-> table, pkg |-> pkg, deps |-> deps, skip |-> skip]

\* base = lambda n: graph.get(n, [])
TestBase(graph, n) == Ok(GetOr(graph, n, <<>>))

\* neigh(n) of stage2_get_direct_deps
RealNeigh(db, pkg, deps, n) ==
    IF n = pkg THEN Ok(deps)
    ELSE LET versions == GetOr(db, n, <<>>)
         IN  IF versions = <<>> THEN KeyError
             ELSE Ok(Get(versions, MaxVersion(versions)))

\* rev_neighbors(n)
rev_neighbors(rev, n) == Ok(GetOr(rev, n, <<>>))

\* [nb for nb in list if skip_substring not in nb]
RECURSIVE FilterOut(_, _)
FilterOut(list, skip_substring) ==
    IF list = <<>> THEN <<>>
    ELSE (IF ~Contains(skip_substring, Head(list)) THEN <<Head(list)>> ELSE <<>>)
         \o FilterOut(Tail(list), skip_substring)

\* make_filtered_neighbors that drops only the names equal to skip_substring
make_filtered_neighbors_Exact(base, skip_substring) ==
    IF skip_substring = "" THEN base
    ELSE IF base.ok
         THEN Ok(SelectSeq(base.val, LAMBDA nb : nb # skip_substring))
    ELSE KeyError

\* what make_filtered_neighbors(base_neighbors, skip_substring) returns,
\* applied to the outcome of base_neighbors(node)
make_filtered_neighbors(base, skip_substring) ==
    IF skip_substring = "" THEN base
    ELSE IF base.ok THEN Ok(FilterOut(base.val, skip_substring))
    ELSE KeyError

\* neighbors_func(node)
Neighbors(nf, node) ==
    CASE nf.fn = "test" -> make_filtered_neighbors(TestBase(nf.table, node), nf.skip)
      [] nf.fn = "real" -> make_filtered_neighbors(
                               RealNeigh(nf.table, nf.pkg, nf.deps, node), nf.skip)
      [] nf.fn = "rev"  -> rev_neighbors(nf.table, node)

(***************************************************************************)
(* build_graph_iterative_dfs                                               *)
(***************************************************************************)
\* the locals after lines 159-163
DfsStart(start_pkg) ==
    [stack    |-> << <<start_pkg, 0, 0>> >>,
     visited  |-> {},
     in_stack |-> {},
     order    |-> <<>>,
     adj      |-> <<>>,
     exits    |-> <<>>]

\* Seen without the in_stack test: a back edge re-enters an open node
Seen_VisitedOnly(d, node) == node \in d.visited

\* Seen without the visited test: a finished node is entered again
Seen_InStackOnly(d, node) == node \in d.in_stack

\* node in visited or node in in_stack
Seen(d, node) == node \in d.visited \/ node \in d.in_stack

\* NeighOf without the depth test: the lookup is queried at every depth
NeighOf_AlwaysQuery(nf, node, depth, max_depth) ==
    LET r == Neighbors(nf, node)
    IN  IF r.ok THEN r.val ELSE <<>>

\* neigh after the try/except
NeighOf(nf, node, depth, max_depth) ==
    LET r == IF depth < max_depth THEN Neighbors(nf, node) ELSE Ok(<<>>)
    IN  IF r.ok THEN r.val ELSE <<>>

\* Pushes with depth in place of depth + 1
RECURSIVE Pushes_SameDepth(_, _, _)
Pushes_SameDepth(neigh, depth, visited) ==
    IF neigh = <<>> THEN <<>>
    ELSE (IF Head(neigh) \notin visited THEN << <<Head(neigh), depth, 0>> >>
          ELSE <<>>)
         \o Pushes_SameDepth(Tail(neigh), depth, visited)

\* the entries the for loop pushes, in order
RECURSIVE Pushes(_, _, _)
Pushes(neigh, depth, visited) ==
    IF neigh = <<>> THEN <<>>
    ELSE (IF Head(neigh) \notin visited THEN << <<Head(neigh), depth + 1, 0>> >>
          ELSE <<>>)
         \o Pushes(Tail(neigh), depth, visited)

\* Record that leaves out the edges from a node to itself
Record_NoSelfEdge(adj, node, neigh) ==
    LET a1 == SetDefault(adj, node, <<>>)
    IN  Put(a1, node, Get(a1, node) \o SelectSeq(neigh, LAMBDA nb : nb # node))

\* adj after adj.setdefault(node, []) and the appends of the for loop
Record(adj, node, neigh) ==
    LET a1 == SetDefault(adj, node, <<>>)
    IN  Put(a1, node, Get(a1, node) \o neigh)

\* Enter in which a KeyError skips the rest of the iteration: the node is
\* opened and appended to order, but not recorded in adj
Enter_SkipOnFailure(d, rest, node, depth, max_depth, nf) ==
    IF depth < max_depth /\ ~Neighbors(nf, node).ok
    THEN [d EXCEPT !.in_stack = @ \cup {node},
                   !.order    = Append(@, node),
                   !.stack    = rest \o << <<node, depth, 1>> >>]
    ELSE LET neigh == NeighOf(nf, node, depth, max_depth)
         IN  [d EXCEPT !.in_stack = @ \cup {node},
                       !.order    = Append(@, node),
                       !.stack    = rest \o << <<node, depth, 1>> >>
                                         \o Pushes(neigh, depth, d.visited),
                       !.adj      = Record(@, node, neigh)]

\* state == 0 and the node is new
Enter(d, rest, node, depth, max_depth, nf) ==
    LET neigh == NeighOf(nf, node, depth, max_depth)
    IN  [d EXCEPT !.in_stack = @ \cup {node},
                  !.order    = Append(@, node),
                  !.stack    = rest \o << <<node, depth, 1>> >>
                                    \o Pushes(neigh, depth, d.visited),
                  !.adj      = Record(@, node, neigh)]

\* state == 1.  exits is a history of the executions of visited.add(node)
Exit(d, rest, node) ==
    [d EXCEPT !.stack    = rest,
              !.in_stack = @ \ {node},
              !.visited  = @ \cup {node},
              !.exits    = Append(@, node)]

\* one iteration of the while loop
DfsStep(d, max_depth, nf) ==
    LET top   == d.stack[Len(d.stack)]
        rest  == SubSeq(d.stack, 1, Len(d.stack) - 1)
        node  == top[1]
        depth == top[2]
        state == top[3]
    IN  IF state = 0
        THEN IF Seen(d, node) THEN [d EXCEPT !.stack = rest]
             ELSE Enter(d, rest, node, depth, max_depth, nf)
        ELSE Exit(d, rest, node)

\* the whole loop
RECURSIVE DfsLoop(_, _, _)
DfsLoop(d, max_depth, nf) ==
    IF d.stack = <<>> THEN d ELSE DfsLoop(DfsStep(d, max_depth, nf), max_depth, nf)

build_graph_iterative_dfs(start_pkg, max_depth, nf) ==
    LET d == DfsLoop(DfsStart(start_pkg), max_depth, nf)
    IN  <<d.adj, d.order>>

(***************************************************************************)
(* stage4_reverse_dependencies: the inversion loop                         *)
(***************************************************************************)
\* AddEdge without the membership test
AddEdge_NoDedup(rev, src, dst) ==
    LET r1 == SetDefault(rev, dst, <<>>)
    IN  Put(r1, dst, Append(Get(r1, dst), src))

\* rev.setdefault(d, []); if src not in rev[d]: rev[d].append(src)
AddEdge(rev, src, dst) ==
    LET r1 == SetDefault(rev, dst, <<>>)
    IN  IF ~InList(src, Get(r1, dst))
        THEN Put(r1, dst, Append(Get(r1, dst), src))
        ELSE r1

RECURSIVE EdgeLoop(_, _, _, _)
EdgeLoop(rev, src, deps, i) ==
    IF i > Len(deps) THEN rev
    ELSE EdgeLoop(AddEdge(rev, src, deps[i]), src, deps, i + 1)

RECURSIVE InvertLoop(_, _, _)
InvertLoop(forward_adj, i, rev) ==
    IF i > Len(forward_adj) THEN rev
    ELSE InvertLoop(forward_adj, i + 1,
                    EdgeLoop(SetDefault(rev, forward_adj[i][1], <<>>),
                             forward_adj[i][1], forward_adj[i][2], 1))

Invert(forward_adj) == InvertLoop(forward_adj, 1, <<>>)

(***************************************************************************)
(* The run of main(): stage 2, stage 3, stage 4.                           *)
(***************************************************************************)
VARIABLES
    p,              \* the validated configuration
    text,           \* the content of the test graph file / of the APKINDEX
    pc,             \* where main() is
    graph,          \* read_test_graph's result (test mode)
    db,             \* parse_apkindex's result (real mode)
    neighbors_func, \* the closure stage 2 returns, then rev_neighbors
    stack, visited, in_stack, order, adj,   \* locals of the running DFS
    exits,          \* history: the nodes in the order of visited.add(node)
    forward_adj,    \* what stage 3 returns
    rev,            \* the inverted map of stage 4
    rev_adj         \* what stage 4 returns

vars == <<p, text, pc, graph, db, neighbors_func, stack, visited, in_stack,
          order, adj, exits, forward_adj, rev, rev_adj>>

dfsVars == <<stack, visited, in_stack, order, adj, exits>>

\* explored inputs
TestLinePool ==
    {"A:B,C", "B:A", "A:A", "B", "A: B,B ,BE,, E", "BE:A"}
ScenarioText == "A:B,C\nB:D\nC:D,E\nD:"
CommentedText == "#B:C\n\nB:\nC\nA: C ,, BE\n"
ApkBlockPool ==
    {"P:A\nV:1\nD:B C", "P:A\nV:1\nD:A so:x BE>=2", "P:B\nV:2\nD:A",
     "P:B\nV:10\nD:C,B", "P:C\nD:A"}
TestRoots == {"A", "BE"}
RealRoots == {"A", "B"}
RealVersions == {"1", "2"}
SkipSubstrings == {"", "E"}

SeqsUpTo(S, n) == UNION {[1..k -> S] : k \in 0..n}

RECURSIVE Join(_, _)
Join(parts, sep) ==
    IF parts = <<>> THEN ""
    ELSE IF Len(parts) = 1 THEN parts[1]
    ELSE parts[1] \o sep \o Join(Tail(parts), sep)

TestTexts == {Join(ls, "\n") : ls \in SeqsUpTo(TestLinePool, MaxLines)}
                 \cup {ScenarioText, CommentedText}
ApkTexts == {Join(bs, "\n\n") : bs \in SeqsUpTo(ApkBlockPool, MaxBlocks)}

Config(name, mode, version, max_depth, skip) ==
    [package_name |-> name, mode |-> mode, version |-> version,
     max_depth |-> max_depth, skip_substring |-> skip]

NoClosure == Closure("none", <<>>, "", <<>>, "")

Locals ==
    [stack |-> stack, visited |-> visited, in_stack |-> in_stack,
     order |-> order, adj |-> adj, exits |-> exits]

SetLocals(d) ==
    /\ stack' = d.stack
    /\ visited' = d.visited
    /\ in_stack' = d.in_stack
    /\ order' = d.order
    /\ adj' = d.adj
    /\ exits' = d.exits

NoConfig == Config("", "", "", 0, "")

Init ==
    /\ p = NoConfig
    /\ text = ""
    /\ pc = "stage1"
    /\ graph = <<>>
    /\ db = <<>>
    /\ neighbors_func = NoClosure
    /\ stack = <<>>
    /\ visited = {}
    /\ in_stack = {}
    /\ order = <<>>
    /\ adj = <<>>
    /\ exits = <<>>
    /\ forward_adj = <<>>
    /\ rev = <<>>
    /\ rev_adj = <<>>

\* main() reads and validates the configuration; the file or index that
\* repo_or_test_path names has some content
Stage1 ==
    /\ pc = "stage1"
    /\ \/ /\ text' \in TestTexts
          /\ \E name \in TestRoots, md \in 0..MaxDepth, skip \in SkipSubstrings :
                p' = Config(name, "test", "1", md, skip)
       \/ /\ text' \in ApkTexts
          /\ \E name \in RealRoots, ver \in RealVersions,
                md \in 0..MaxDepth, skip \in SkipSubstrings :
                p' = Config(name, "real", ver, md, skip)
    /\ pc' = "stage2"
    /\ UNCHANGED <<graph, db, neighbors_func, dfsVars, forward_adj, rev, rev_adj>>

\* stage2_get_direct_deps, test mode
Stage2Test ==
    /\ pc = "stage2"
    /\ p.mode = "test"
    /\ graph' = read_test_graph(text)
    /\ neighbors_func' = Closure("test", graph', "", <<>>, p.skip_substring)
    /\ pc' = "stage3"
    /\ UNCHANGED <<p, text, db, dfsVars, forward_adj, rev, rev_adj>>

\* stage2_get_direct_deps, real mode; a KeyError for the root ends main()
Stage2Real ==
    /\ pc = "stage2"
    /\ p.mode = "real"
    /\ db' = parse_apkindex(text)
    /\ LET r == get_direct_deps_real(db', p.package_name, p.version)
       IN  IF r.ok
           THEN /\ neighbors_func' =
                       Closure("real", db', p.package_name, r.val, p.skip_substring)
                /\ pc' = "stage3"
           ELSE /\ neighbors_func' = neighbors_func
                /\ pc' = "error"
    /\ UNCHANGED <<p, text, graph, dfsVars, forward_adj, rev, rev_adj>>

\* stage3_build_graph up to the while loop
Stage3Call ==
    /\ pc = "stage3"
    /\ SetLocals(DfsStart(p.package_name))
    /\ pc' = "dfs3"
    /\ UNCHANGED <<p, text, graph, db, neighbors_func, forward_adj, rev, rev_adj>>

\* one iteration of the while loop, of either traversal
DfsIter ==
    /\ pc \in {"dfs3", "dfs4"}
    /\ stack # <<>>
    /\ SetLocals(DfsStep(Locals, p.max_depth, neighbors_func))
    /\ UNCHANGED <<p, text, pc, graph, db, neighbors_func, forward_adj, rev, rev_adj>>

\* the loop of stage 3 ends: return adj
Stage3Return ==
    /\ pc = "dfs3"
    /\ stack = <<>>
    /\ forward_adj' = adj
    /\ pc' = "stage4"
    /\ UNCHANGED <<p, text, graph, db, neighbors_func, dfsVars, rev, rev_adj>>

\* stage4_reverse_dependencies up to the while loop
Stage4Call ==
    /\ pc = "stage4"
    /\ rev' = Invert(forward_adj)
    /\ neighbors_func' = Closure("rev", rev', "", <<>>, "")
    /\ SetLocals(DfsStart(p.package_name))
    /\ pc' = "dfs4"
    /\ UNCHANGED <<p, text, graph, db, forward_adj, rev_adj>>

\* the loop of stage 4 ends: return rev_adj
Stage4Return ==
    /\ pc = "dfs4"
    /\ stack = <<>>
    /\ rev_adj' = adj
    /\ pc' = "done"
    /\ UNCHANGED <<p, text, graph, db, neighbors_func, dfsVars, forward_adj, rev>>

Next ==
    \/ Stage1
    \/ Stage2Test
    \/ Stage2Real
    \/ Stage3Call
    \/ DfsIter
    \/ Stage3Return
    \/ Stage4Call
    \/ Stage4Return

Spec == Init /\ [][Next]_vars

\* the while loop is sequential code: an iteration that can run does run,
\* and so does the return statement once the stack is empty
FairSpec ==
    /\ Spec
    /\ WF_vars(DfsIter)
    /\ WF_vars(Stage3Return)
    /\ WF_vars(Stage4Return)

(***************************************************************************)
(* Vocabulary of the properties                                            *)
(***************************************************************************)
Root == p.package_name

\* the forward traversal is running or has just returned
Forward == pc \in {"dfs3", "stage4"}
\* the forward traversal has returned (adj, order)
ForwardReturned == pc = "stage4"

\* the list the lookup yields for n, empty when it raises
LookupList(n) ==
    LET r == Neighbors(neighbors_func, n) IN IF r.ok THEN r.val ELSE <<>>

LookupFails(n) == ~Neighbors(neighbors_func, n).ok

Elems(list) == {list[i] : i \in DOMAIN list}

NoDup(list) == \A i, j \in DOMAIN list : i # j => list[i] # list[j]

Count(list, x) == Cardinality({i \in DOMAIN list : list[i] = x})

\* equality of dicts, which ignores the insertion order
SameDict(d, e) ==
    /\ Keys(d) = Keys(e)
    /\ Len(d) = Len(e)
    /\ \A k \in Keys(d) : Get(d, k) = Get(e, k)

\* every name that occurs in a list of the dict
Listed(d) == UNION {Elems(d[i][2]) : i \in DOMAIN d}

(***************************************************************************)
(* C1: during and at the end of every traversal, order contains no name    *)
(* twice, is as long as the adjacency map, and holds exactly its keys.     *)
(***************************************************************************)
C1_OrderMatchesAdjacency ==
    /\ NoDup(order)
    /\ Len(order) = Len(adj)
    /\ Elems(order) = Keys(adj)

\* a forward traversal of three nodes in which a lookup failed has returned
C1_Witness ==
    /\ ForwardReturned
    /\ Len(order) >= 3
    /\ \E n \in Elems(order) : LookupFails(n)

C2_ExitEntries ==
    \A i \in DOMAIN stack :
        stack[i][3] = 1 =>
            /\ Has(adj, stack[i][1])
            /\ Get(adj, stack[i][1]) =
                   IF stack[i][2] < p.max_depth THEN LookupList(stack[i][1])
                   ELSE <<>>

C2_DepthZero ==
    (ForwardReturned /\ p.max_depth = 0) => forward_adj = << <<Root, <<>>>> >>

C2_ListsFrozen ==
    pc' = pc =>
        \A k \in Keys(adj) : Has(adj', k) /\ Get(adj', k) = Get(adj, k)

C3_Scenario ==
    /\ ForwardReturned
    /\ text = ScenarioText
    /\ p.mode = "test"
    /\ Root = "A"
    /\ p.max_depth = 1
    /\ p.skip_substring = ""

C3_OnlyRootKey ==
    C3_Scenario => forward_adj = << <<"A", <<"B", "C">>>> >>

(***************************************************************************)
(* C3 amended: the map is {A: [B, C], B: [], C: []}; B and C, reached at   *)
(* depth max_depth, are keys with empty lists, D and E are not keys.       *)
(***************************************************************************)
C3_ChildrenAreLeaves ==
    C3_Scenario =>
        SameDict(forward_adj,
                 << <<"A", <<"B", "C">>>>, <<"B", <<>>>>, <<"C", <<>>>> >>)

C3_Witness == C3_Scenario

(***************************************************************************)
(* C4: every traversal runs to its return; no node is added to visited     *)
(* twice, none is expanded twice; in a 2-cycle A -> B, B -> A traversed    *)
(* with max_depth >= 2 both A and B are visited exactly once.              *)
(***************************************************************************)
C4_TwoCycle ==
    /\ Root \in {"A", "B"}
    /\ p.max_depth >= 2
    /\ InList("B", LookupList("A"))
    /\ InList("A", LookupList("B"))

C4_Once ==
    /\ NoDup(exits)
    /\ NoDup(order)
    /\ (ForwardReturned /\ C4_TwoCycle) =>
           Count(exits, "A") = 1 /\ Count(exits, "B") = 1

C4_TerminatesVisitingOnce ==
    /\ (pc = "dfs3") ~> (pc = "stage4")
    /\ (pc = "dfs4") ~> (pc = "done")
    /\ []C4_Once

C4_Witness == ForwardReturned /\ C4_TwoCycle

(***************************************************************************)
(* C5 as stated: when the start node lists itself, the returned list of    *)
(* the start node contains it, for every max_depth >= 0.                   *)
(***************************************************************************)
C5_SelfLoop == InList(Root, LookupList(Root))

C5_SelfEdgeResult ==
    (ForwardReturned /\ C5_SelfLoop) =>
        IF p.max_depth >= 1
        THEN InList(Root, Get(forward_adj, Root))
        ELSE forward_adj = << <<Root, <<>>>> >>

Undeclared(index) ==
    UNION {Listed(index[i][2]) : i \in DOMAIN index} \ Keys(index)

RECURSIVE Declare(_, _)
Declare(index, names) ==
    IF names = {} THEN index
    ELSE LET n == CHOOSE x \in names : TRUE
         IN  Declare(Append(index, <<n, << <<"0", <<>>>> >> >>), names \ {n})

C6_FailureIsLeaf ==
    (ForwardReturned /\ p.mode = "real") =>
        /\ \A n \in Keys(forward_adj) :
               LookupFails(n) => n \in Elems(order) /\ Get(forward_adj, n) = <<>>
        /\ <<forward_adj, order>> =
               build_graph_iterative_dfs(Root, p.max_depth,
                   [neighbors_func EXCEPT !.table = Declare(db, Undeclared(db))])

\* a lookup was queried and failed, and the traversal recorded other nodes
C6_Witness ==
    /\ ForwardReturned
    /\ p.mode = "real"
    /\ p.max_depth = 2
    /\ Len(order) >= 3
    /\ \E n \in Elems(LookupList(Root)) : LookupFails(n)

(***************************************************************************)
(* C7 as stated: over a lookup wrapped with a non-empty skip substring, no *)
(* name containing the substring is a key of the adjacency map or occurs   *)
(* in one of its lists.                                                    *)
(***************************************************************************)
C7_Filtered == Forward /\ p.skip_substring # ""

Excluded(name) == Contains(p.skip_substring, name)

C7_NoExcludedName ==
    C7_Filtered =>
        /\ \A k \in Keys(adj) : ~Excluded(k)
        /\ \A n \in Listed(adj) : ~Excluded(n)

(***************************************************************************)
(* C7 amended: no name containing the substring occurs in a list of the    *)
(* adjacency map, and none is a key except the start node itself, which    *)
(* is never filtered.                                                      *)
(***************************************************************************)
C7_NoExcludedNameButStart ==
    C7_Filtered =>
        /\ \A k \in Keys(adj) : Excluded(k) => k = Root
        /\ \A n \in Listed(adj) : ~Excluded(n)

\* the unwrapped lookup of a recorded node returned an excluded name
C7_Witness ==
    /\ ForwardReturned
    /\ p.skip_substring # ""
    /\ Len(forward_adj) >= 2
    /\ \E k \in Keys(forward_adj) :
           LET r == Neighbors([neighbors_func EXCEPT !.skip = ""], k)
           IN  r.ok /\ \E n \in Elems(r.val) : Excluded(n)

(***************************************************************************)
(* C8: the inverted map has the forward keys and every listed name as      *)
(* keys; rev[d] holds src exactly when d occurs in forward[src], and holds *)
(* it once; {A:[B,C], B:[], C:[]} inverts to {A:[], B:[A], C:[A]}.         *)
(***************************************************************************)
Inverted == pc \in {"dfs4", "done"}

C8_Inversion ==
    Inverted =>
        /\ Keys(rev) = Keys(forward_adj) \cup Listed(forward_adj)
        /\ NoDup(KeyList(rev))
        /\ \A d \in Keys(rev) :
               /\ NoDup(Get(rev, d))
               /\ Elems(Get(rev, d)) =
                      {src \in Keys(forward_adj) : InList(d, Get(forward_adj, src))}
        /\ SameDict(forward_adj,
                    << <<"A", <<"B", "C">>>>, <<"B", <<>>>>, <<"C", <<>>>> >>)
               => SameDict(rev,
                    << <<"A", <<>>>>, <<"B", <<"A">>>>, <<"C", <<"A">>>> >>)

\* a forward list names the same dependency twice
C8_Witness ==
    /\ Inverted
    /\ \E src \in Keys(forward_adj) : ~NoDup(Get(forward_adj, src))

(***************************************************************************)
(* C9: the list stored for (name, version) is the one of the last block of *)
(* the text that declares the pair.                                        *)
(***************************************************************************)
\* the positions at which a block is completed: the blank lines and the end
BlockEnds(lines) ==
    {e \in 1..(Len(lines) + 1) : e = Len(lines) + 1 \/ Strip(lines[e]) = ""}

\* the fields of the block completed at e
RECURSIVE FieldsBefore(_, _)
FieldsBefore(lines, e) ==
    IF e = 1 \/ Strip(lines[e - 1]) = "" THEN EmptyBlock
    ELSE ApkLine(FieldsBefore(lines, e - 1), lines[e - 1])

DeclaresPair(lines, e, name, ver) ==
    LET f == FieldsBefore(lines, e)
    IN  /\ "P" \in DOMAIN f /\ "V" \in DOMAIN f
        /\ f["P"] = name /\ f["V"] = ver

C9_LastBlockWins ==
    (p.mode = "real" /\ pc \notin {"stage1", "stage2"}) =>
        LET lines == SplitLines(text)
        IN  \A name \in Keys(db) : \A ver \in Keys(Get(db, name)) :
                LET ends == {e \in BlockEnds(lines) : DeclaresPair(lines, e, name, ver)}
                    last == CHOOSE e \in ends : \A x \in ends : x <= e
                    f    == FieldsBefore(lines, last)
                IN  Get(Get(db, name), ver) =
                        ParseDeps(IF "D" \in DOMAIN f THEN f["D"] ELSE "")

(***************************************************************************)
(* C10 as stated: the list stored for a node is the one of the last line   *)
(* that declares it, a bare NODE line declaring the empty list.            *)
(***************************************************************************)
GraphRead == p.mode = "test" /\ pc \notin {"stage1", "stage2"}

\* what one line declares: nothing, or one node with its list
Declared(raw) == ReadLine(<<>>, raw)

WithColon(raw) == Contains(":", Strip(raw))

LinesOf(raws, node) ==
    {i \in DOMAIN raws : Declared(raws[i]) # <<>> /\ Declared(raws[i])[1][1] = node}

Last(S) == CHOOSE i \in S : \A j \in S : j <= i

C10_LastLineWins ==
    GraphRead =>
        LET raws == FileLines(text)
        IN  /\ Keys(graph) = {Declared(raws[i])[1][1] :
                                 i \in {j \in DOMAIN raws : Declared(raws[j]) # <<>>}}
            /\ \A node \in Keys(graph) :
                   Get(graph, node) = Declared(raws[Last(LinesOf(raws, node))])[1][2]

(***************************************************************************)
(* C10 amended: the list stored for a node is the one of the last          *)
(* NODE:... line that declares it; a bare NODE line only adds a node not   *)
(* yet declared, with the empty list, and never replaces a stored list.    *)
(***************************************************************************)
C10_LastColonLineWins ==
    GraphRead =>
        LET raws == FileLines(text)
        IN  /\ Keys(graph) = {Declared(raws[i])[1][1] :
                                 i \in {j \in DOMAIN raws : Declared(raws[j]) # <<>>}}
            /\ NoDup(KeyList(graph))
            /\ \A node \in Keys(graph) :
                   LET colon == {i \in LinesOf(raws, node) : WithColon(raws[i])}
                   IN  Get(graph, node) =
                           IF colon = {} THEN <<>>
                           ELSE Declared(raws[Last(colon)])[1][2]

\* a bare line follows a line that gives the same node a non-empty list,
\* and a line with a colon follows another one for the same node
C10_BareAfterList ==
    LET raws == FileLines(text)
    IN  \E i, j \in DOMAIN raws :
            /\ i < j
            /\ Declared(raws[i]) # <<>> /\ Declared(raws[j]) # <<>>
            /\ Declared(raws[i])[1][1] = Declared(raws[j])[1][1]
            /\ Declared(raws[i])[1][2] # <<>>
            /\ ~WithColon(raws[j])

C10_Witness == GraphRead /\ C10_BareAfterList

=============================================================================
